---- MODULE Spec2Model ----
(***************************************************************************)
(* Model of the GPRO-Graphics1 vector library (gproVector.h / .inl) and of *)
(* the test console program (testVector, ray_color, main).                 *)
(*                                                                         *)
(* A float is modelled as a fixed-point number: the integer n stands for   *)
(* the value n / FP.  Sums, differences and negations are exact; products, *)
(* quotients and square roots round toward zero to a multiple of 1 / FP.   *)
(* A vec3 / float3 is the tuple <<e[0], e[1], e[2]>>: the union's x, y, z  *)
(* are the same storage, so v[1] is both v.x and v.e[0].                   *)
(***************************************************************************)
EXTENDS Integers, Sequences, FiniteSets, TLC

VARIABLES
    given,    \* the vectors a caller starts with (never written)
    mem,      \* storage of the vectors in scope: object name -> <<e0, e1, e2>>
    ret,      \* the object the last call returned (pointer, reference or temporary)
    last,     \* the last call: [op, out, lh, rh, args]
    nops,     \* number of calls made in the expression under evaluation
    tpc,      \* "expr" (a caller's expression) or the position in testVector
    console,  \* what testVector printed
    pc,       \* position in main
    i,        \* main: column counter
    j,        \* main: row counter
    cam,      \* main: origin, horizontal, vertical, lower_left_corner
    px,       \* main: the loop body's locals u, v, r, pixel_color
    file,     \* main: the output stream image.ppm
    cerr      \* main: the diagnostic stream

vecVars  == <<given, mem, ret, last, nops, tpc, console>>
mainVars == <<pc, i, j, cam, px, file, cerr>>
vars     == <<given, mem, ret, last, nops, tpc, console, pc, i, j, cam, px, file, cerr>>

(***************************************************************************)
(* Bounds of the model.                                                    *)
(***************************************************************************)
FP      == 1000   \* fixed-point resolution: units per 1.0
MaxVal  == 1      \* a drawn vector's components are the whole numbers 0 .. MaxVal
MaxOps  == 2      \* calls chained in one expression

\* a float, and three of them (float3, and vec3's e)
Float3 == [1..3 -> Int]

(***************************************************************************)
(* float arithmetic                                                        *)
(***************************************************************************)
fl(n) == n * FP

ftrunc[n \in Int, d \in Int] == IF n >= 0 THEN n \div d ELSE -((-n) \div d)

fmul[a \in Int, b \in Int] == ftrunc[a * b, FP]

fdiv[a \in Int, b \in Int] == IF b > 0 THEN ftrunc[a * FP, b] ELSE ftrunc[-(a * FP), -b]

ftoi(a) == ftrunc[a, FP]

\* sqrt: the largest r in lo .. hi with r * r <= n
isqrt[n \in Nat, lo \in Nat, hi \in Nat] ==
    IF lo >= hi THEN lo
    ELSE LET mid == (lo + hi + 1) \div 2
         IN  IF mid * mid <= n THEN isqrt[n, mid, hi] ELSE isqrt[n, lo, mid - 1]

fsqrt[a \in Int] == isqrt[a * FP, 0, 46340]

(***************************************************************************)
(* vec3: constructors and value operators                                  *)
(***************************************************************************)
vec3_default == <<0, 0, 0>>

vec3_init(xc, yc, zc) == <<xc, yc, zc>>

vec3_array(vc) == <<vc[1], vc[2], vc[3]>>

vec3_copy(rh) == <<rh[1], rh[2], rh[3]>>

opPlus[this \in Float3, rh \in Float3] == vec3_init(this[1] + this[1], this[2] + this[2], this[3] + this[3])

opNeg(this) == vec3_init(-this[1], -this[2], -this[3])

length_squared[this \in Float3] == fmul[this[1], this[1]] + fmul[this[2], this[2]] + fmul[this[3], this[3]]

length[this \in Float3] == fsqrt[length_squared[this]]

opMinus[u \in Float3, v \in Float3] == vec3_init(u[1] - v[1], u[2] - v[2], u[3] - v[3])

opMulSV[t \in Int, v \in Float3] == vec3_init(fmul[t, v[1]], fmul[t, v[2]], fmul[t, v[3]])

opMulVS[v \in Float3, t \in Int] == opMulSV[t, v]

opDiv[v \in Float3, t \in Int] == opMulSV[fdiv[fl(1), t], v]

\* cross with the operands of its last component exchanged
cross_mut(u, v) ==
    vec3_init(fmul[u[2], v[3]] - fmul[u[3], v[2]],
              fmul[u[3], v[1]] - fmul[u[1], v[3]],
              fmul[u[2], v[1]] - fmul[u[1], v[2]])

cross(u, v) ==
    vec3_init(fmul[u[2], v[3]] - fmul[u[3], v[2]],
              fmul[u[3], v[1]] - fmul[u[1], v[3]],
              fmul[u[1], v[2]] - fmul[u[2], v[1]])

unit_vector[v \in Float3] == opDiv[v, length[v]]

(***************************************************************************)
(* Operations that write through a pointer or reference.  m is the storage *)
(* before the call; the result is the storage after it.  The components    *)
(* are written one after the other, as in the code, so an operand that is  *)
(* also the destination is read after it was written.                      *)
(***************************************************************************)
Put(m, o, k, val) == [m EXCEPT ![o][k] = val]

opAssign(m, this, rh) ==
    LET m1 == Put(m, this, 1, m[rh][1])
        m2 == Put(m1, this, 2, m1[rh][2])
    IN  Put(m2, this, 3, m2[rh][3])

\* operator+= that adds this to itself, as operator+ does
opAddAssign_mut(m, this, rh) ==
    LET m1 == Put(m, this, 1, m[this][1] + m[this][1])
        m2 == Put(m1, this, 2, m1[this][2] + m1[this][2])
    IN  Put(m2, this, 3, m2[this][3] + m2[this][3])

opAddAssign(m, this, rh) ==
    LET m1 == Put(m, this, 1, m[this][1] + m[rh][1])
        m2 == Put(m1, this, 2, m1[this][2] + m1[rh][2])
    IN  Put(m2, this, 3, m2[this][3] + m2[rh][3])

vec3default(m, v_out) == [m EXCEPT ![v_out] = <<0, 0, 0>>]

vec3init(m, v_out, xc, yc, zc) ==
    Put(Put(Put(m, v_out, 1, xc), v_out, 2, yc), v_out, 3, zc)

vec3copy(m, v_out, v_rh) ==
    LET m1 == Put(m, v_out, 1, m[v_rh][1])
        m2 == Put(m1, v_out, 2, m1[v_rh][2])
    IN  Put(m2, v_out, 3, m2[v_rh][3])

\* vec3add that adds the wrong component of v_rh to the last one
vec3add_mut(m, v_lh_sum, v_rh) ==
    LET m1 == Put(m, v_lh_sum, 1, m[v_lh_sum][1] + m[v_rh][1])
        m2 == Put(m1, v_lh_sum, 2, m1[v_lh_sum][2] + m1[v_rh][2])
    IN  Put(m2, v_lh_sum, 3, m2[v_lh_sum][3] + m2[v_rh][2])

vec3add(m, v_lh_sum, v_rh) ==
    LET m1 == Put(m, v_lh_sum, 1, m[v_lh_sum][1] + m[v_rh][1])
        m2 == Put(m1, v_lh_sum, 2, m1[v_lh_sum][2] + m1[v_rh][2])
    IN  Put(m2, v_lh_sum, 3, m2[v_lh_sum][3] + m2[v_rh][3])

vec3sum(m, v_sum, v_lh, v_rh) ==
    vec3init(m, v_sum, m[v_lh][1] + m[v_rh][1], m[v_lh][2] + m[v_rh][2],
             m[v_lh][3] + m[v_rh][3])

\* a new object (a declared variable or a temporary) holding val
NewObj(m, o, val) == (o :> val) @@ m

(***************************************************************************)
(* The vector library used by a caller.  A caller holds three vectors a,   *)
(* b, c and evaluates one expression: a first call on a and b (in either   *)
(* order, or on one of them twice), then calls chained on the object the   *)
(* previous call returned, with c as the other operand.  In testVector the *)
(* four float3 buffers are uninitialised when the function starts.         *)
(***************************************************************************)
Vec == {<<fl(x), fl(y), fl(z)>> : x \in 0..MaxVal, y \in 0..MaxVal, z \in 0..MaxVal}

LitB == <<fl(1), fl(2), fl(3)>>
LitC == <<fl(4), fl(5), fl(6)>>

NoCall == [op |-> "none", out |-> "none", lh |-> "none", rh |-> "none", args |-> <<>>]

MainIdle ==
    /\ pc = "idle"
    /\ i = 0
    /\ j = 0
    /\ cam = <<>>
    /\ px = <<>>
    /\ file = <<>>
    /\ cerr = <<>>

InitExpr ==
    /\ \E va \in Vec, vb \in Vec, vc \in {LitB, LitC} :
          given = [o \in {"a", "b", "c"} |->
                      IF o = "a" THEN va ELSE IF o = "b" THEN vb ELSE vc]
    /\ mem = given
    /\ ret = "none"
    /\ last = NoCall
    /\ nops = 0
    /\ tpc = "expr"
    /\ console = <<>>

InitTest ==
    /\ given = <<>>
    /\ mem \in [{"av", "bv", "cv", "dv"} -> Vec]
    /\ ret = "none"
    /\ last = NoCall
    /\ nops = 0
    /\ tpc = "L36"
    /\ console = <<>>

Init == (InitExpr \/ InitTest) /\ MainIdle

\* a call: the storage after it, the object it returns, and the record of it
CallWith(op, o, x, y, ar, m2, r, n) ==
    /\ mem' = m2
    /\ ret' = r
    /\ last' = [op |-> op, out |-> o, lh |-> x, rh |-> y, args |-> ar]
    /\ nops' = n
    /\ UNCHANGED given

Call(op, o, x, y, m2, r, n) == CallWith(op, o, x, y, <<>>, m2, r, n)

\* a call of vec3init, which takes three floats
CallInit(o, xc, yc, zc, n) ==
    CallWith("vec3init", o, "none", "none", <<xc, yc, zc>>,
             vec3init(mem, o, xc, yc, zc), o, n)

Operands ==
    IF nops = 0 THEN {"a", "b"} \X {"a", "b"} ELSE {<<ret, "c">>}

InExpr == tpc = "expr" /\ nops < MaxOps

ExprAssign ==
    /\ InExpr
    /\ \E p \in Operands :
          Call("assign", p[1], p[1], p[2], opAssign(mem, p[1], p[2]), p[1], nops + 1)
    /\ UNCHANGED <<tpc, console, mainVars>>

ExprAddAssign ==
    /\ InExpr
    /\ \E p \in Operands :
          Call("addassign", p[1], p[1], p[2], opAddAssign(mem, p[1], p[2]), p[1], nops + 1)
    /\ UNCHANGED <<tpc, console, mainVars>>

ExprPlus ==
    /\ InExpr
    /\ \E p \in Operands :
          Call("plus", "tmp", p[1], p[2],
               NewObj(mem, "tmp", opPlus[mem[p[1]], mem[p[2]]]), "tmp", nops + 1)
    /\ UNCHANGED <<tpc, console, mainVars>>

ExprNeg ==
    /\ InExpr
    /\ \E p \in Operands :
          Call("neg", "tmp", p[1], "none",
               NewObj(mem, "tmp", opNeg(mem[p[1]])), "tmp", nops + 1)
    /\ UNCHANGED <<tpc, console, mainVars>>

ExprCross ==
    /\ InExpr
    /\ \E p \in Operands :
          Call("cross", "tmp", p[1], p[2],
               NewObj(mem, "tmp", cross(mem[p[1]], mem[p[2]])), "tmp", nops + 1)
    /\ UNCHANGED <<tpc, console, mainVars>>

ExprDefault ==
    /\ InExpr
    /\ \E p \in Operands :
          Call("vec3default", p[1], "none", "none", vec3default(mem, p[1]), p[1], nops + 1)
    /\ UNCHANGED <<tpc, console, mainVars>>

ExprInit ==
    /\ InExpr
    /\ \E p \in Operands :
          CallInit(p[1], mem["c"][1], mem["c"][2], mem["c"][3], nops + 1)
    /\ UNCHANGED <<tpc, console, mainVars>>

ExprCopy ==
    /\ InExpr
    /\ \E p \in Operands :
          Call("vec3copy", p[1], "none", p[2], vec3copy(mem, p[1], p[2]), p[1], nops + 1)
    /\ UNCHANGED <<tpc, console, mainVars>>

ExprAdd ==
    /\ InExpr
    /\ \E p \in Operands :
          Call("vec3add", p[1], p[1], p[2], vec3add(mem, p[1], p[2]), p[1], nops + 1)
    /\ UNCHANGED <<tpc, console, mainVars>>

ExprSum ==
    /\ InExpr
    /\ \E p \in Operands : \E o \in {p[1], "c"} :
          Call("vec3sum", o, p[1], p[2], vec3sum(mem, o, p[1], p[2]), o, nops + 1)
    /\ UNCHANGED <<tpc, console, mainVars>>

(***************************************************************************)
(* testVector, one action per call, in program order.                      *)
(***************************************************************************)
At(l, n) == tpc = l /\ tpc' = n /\ UNCHANGED <<console, mainVars>>

T36 ==
    /\ At("L36", "L37")
    /\ Call("vec3default", "av", "none", "none", vec3default(mem, "av"), "av", 1)

T37 ==
    /\ At("L37", "L38a")
    /\ CallInit("bv", fl(1), fl(2), fl(3), 1)

T38a ==
    /\ At("L38a", "L38b")
    /\ CallInit("cv", fl(4), fl(5), fl(6), 1)

T38b ==
    /\ At("L38b", "L39")
    /\ Call("vec3copy", "dv", "none", ret, vec3copy(mem, "dv", ret), "dv", 2)

T39 ==
    /\ At("L39", "L40")
    /\ Call("vec3copy", "av", "none", "dv", vec3copy(mem, "av", "dv"), "av", 1)

T40 ==
    /\ At("L40", "L41")
    /\ Call("vec3add", "dv", "dv", "bv", vec3add(mem, "dv", "bv"), "dv", 1)

T41 ==
    /\ At("L41", "L42a")
    /\ Call("vec3sum", "dv", "bv", "bv", vec3sum(mem, "dv", "bv", "bv"), "dv", 1)

T42a ==
    /\ At("L42a", "L42b")
    /\ Call("vec3sum", "dv", "cv", "bv", vec3sum(mem, "dv", "cv", "bv"), "dv", 1)

T42b ==
    /\ At("L42b", "L46a")
    /\ Call("vec3add", ret, ret, "av", vec3add(mem, ret, "av"), ret, 2)

T46a ==
    /\ At("L46a", "L46b")
    /\ Call("ctor", "a", "none", "none", NewObj(mem, "a", vec3_default), "a", 1)

T46b ==
    /\ At("L46b", "L46c")
    /\ CallWith("ctor", "b", "none", "none", <<fl(1), fl(2), fl(3)>>,
                NewObj(mem, "b", vec3_init(fl(1), fl(2), fl(3))), "b", 1)

T46c ==
    /\ At("L46c", "L46d")
    /\ Call("ctor", "c", "none", "cv", NewObj(mem, "c", vec3_array(mem["cv"])), "c", 1)

T46d ==
    /\ At("L46d", "L47")
    /\ Call("ctor", "d", "none", "c", NewObj(mem, "d", vec3_copy(mem["c"])), "d", 1)

T47 ==
    /\ At("L47", "L48")
    /\ Call("assign", "a", "a", "d", opAssign(mem, "a", "d"), "a", 1)

T48 ==
    /\ At("L48", "L49a")
    /\ Call("addassign", "d", "d", "b", opAddAssign(mem, "d", "b"), "d", 1)

T49a ==
    /\ At("L49a", "L49b")
    /\ Call("plus", "tmp", "b", "b",
            NewObj(mem, "tmp", opPlus[mem["b"], mem["b"]]), "tmp", 1)

T49b ==
    /\ At("L49b", "L50a")
    /\ Call("assign", "d", "d", ret, opAssign(mem, "d", ret), "d", 2)

T50a ==
    /\ At("L50a", "L50b")
    /\ Call("plus", "tmp", "c", "b",
            NewObj(mem, "tmp", opPlus[mem["c"], mem["b"]]), "tmp", 1)

T50b ==
    /\ At("L50b", "L50c")
    /\ Call("plus", "tmp", ret, "a",
            NewObj(mem, "tmp", opPlus[mem[ret], mem["a"]]), "tmp", 2)

T50c ==
    /\ At("L50c", "L53")
    /\ Call("assign", "d", "d", ret, opAssign(mem, "d", ret), "d", 3)

T53 ==
    /\ At("L53", "L54")
    /\ Call("ctor", "test", "none", "none", NewObj(mem, "test", vec3_default), "test", 1)

T54 ==
    /\ At("L54", "L55")
    /\ CallInit("test", fl(1), fl(2), fl(3), 1)

T55 ==
    /\ tpc = "L55"
    /\ tpc' = "L56"
    /\ console' = Append(console, mem["test"])
    /\ UNCHANGED <<given, mem, ret, last, nops, mainVars>>

T56 ==
    /\ tpc = "L56"
    /\ tpc' = "done"
    /\ console' = Append(console, mem["test"])
    /\ UNCHANGED <<given, mem, ret, last, nops, mainVars>>

Next ==
    \/ ExprAssign \/ ExprAddAssign \/ ExprPlus \/ ExprNeg \/ ExprCross
    \/ ExprDefault \/ ExprInit \/ ExprCopy \/ ExprAdd \/ ExprSum
    \/ T36 \/ T37 \/ T38a \/ T38b \/ T39 \/ T40 \/ T41 \/ T42a \/ T42b
    \/ T46a \/ T46b \/ T46c \/ T46d \/ T47 \/ T48 \/ T49a \/ T49b
    \/ T50a \/ T50b \/ T50c \/ T53 \/ T54 \/ T55 \/ T56

Spec == Init /\ [][Next]_vars

(***************************************************************************)
(* The ray-tracing demo: ray, ray_color, write_color and main.             *)
(***************************************************************************)
ray(origin, direction) == [orig |-> origin, dir |-> direction]

Ray == [orig : Float3, dir : Float3]

ray_color[r \in Ray] ==
    LET unit_direction == unit_vector[r.dir]
        t == fmul[FP \div 2, unit_direction[2] + fl(1)]
    IN  opPlus[opMulSV[fl(1) - t, vec3_init(fl(1), fl(1), fl(1))],
               opMulSV[t, vec3_init(FP \div 2, (7 * FP) \div 10, fl(1))]]

write_color(out, pixel_color) ==
    LET k == (255999 * FP) \div 1000
    IN  [out EXCEPT !.pixels = Append(@, <<ftoi(fmul[k, pixel_color[1]]),
                                           ftoi(fmul[k, pixel_color[2]]),
                                           ftoi(fmul[k, pixel_color[3]])>>)]

aspect_ratio == fdiv[fl(16), fl(9)]
image_width == 400
image_height == ftoi(fdiv[fl(image_width), aspect_ratio])

viewport_height == fl(2)
viewport_width == fmul[aspect_ratio, viewport_height]
focal_length == fl(1)

Camera ==
    LET origin == vec3_init(fl(0), fl(0), fl(0))
        horizontal == vec3_init(viewport_width, fl(0), fl(0))
        vertical == vec3_init(fl(0), viewport_height, fl(0))
    IN  [origin |-> origin,
         horizontal |-> horizontal,
         vertical |-> vertical,
         lower_left_corner |->
             opMinus[opMinus[opMinus[origin, opDiv[horizontal, fl(2)]],
                             opDiv[vertical, fl(2)]],
                     vec3_init(fl(0), fl(0), focal_length)]]

VecIdle ==
    /\ given = <<>>
    /\ mem = <<>>
    /\ ret = "none"
    /\ last = NoCall
    /\ nops = 0
    /\ tpc = "idle"

InitMain ==
    /\ VecIdle
    /\ console = <<>>
    /\ pc = "start"
    /\ i = 0
    /\ j = 0
    /\ cam = <<>>
    /\ px = <<>>
    /\ file = [open |-> FALSE, header |-> <<>>, pixels |-> <<>>]
    /\ cerr = [scan |-> <<>>, done |-> FALSE]

\* lines 84-99: the image and camera constants, printf("\n\n")
MainSetup ==
    /\ pc = "start"
    /\ cam' = Camera
    /\ console' = Append(console, "\n\n")
    /\ pc' = "open"
    /\ UNCHANGED <<given, mem, ret, last, nops, tpc, i, j, px, file, cerr>>

\* lines 102-106: open image.ppm, write the header, start the row loop
MainOpen ==
    /\ pc = "open"
    /\ file' = [open |-> TRUE,
                header |-> [magic |-> "P3", width |-> image_width,
                            height |-> image_height, maxval |-> 255],
                pixels |-> <<>>]
    /\ j' = image_height - 1
    /\ pc' = "outer"
    /\ UNCHANGED <<vecVars, i, cam, px, cerr>>

\* lines 106-109: the row loop's test, the progress line, start the column loop
RowStart ==
    /\ pc = "outer"
    /\ j >= 0
    /\ cerr' = [cerr EXCEPT !.scan = Append(@, j)]
    /\ i' = 0
    /\ pc' = "inner"
    /\ UNCHANGED <<vecVars, j, cam, px, file>>

\* lines 109-115: the column loop's test, its body and ++i
Pixel ==
    /\ pc = "inner"
    /\ i < image_width
    /\ LET u == fdiv[fl(i), fl(image_width - 1)]
           v == fdiv[fl(j), fl(image_height - 1)]
           r == ray(cam.origin,
                    opMinus[opPlus[opPlus[cam.lower_left_corner,
                                          opMulSV[u, cam.horizontal]],
                                   opMulSV[v, cam.vertical]],
                            cam.origin])
           pixel_color == ray_color[r]
       IN  px' = [u |-> u, v |-> v, r |-> r, pixel_color |-> pixel_color]
    /\ i' = i + 1
    /\ UNCHANGED <<vecVars, pc, j, cam, file, cerr>>

\* a row loop that steps over every other row
RowEnd_mut ==
    /\ pc = "inner"
    /\ i >= image_width
    /\ j' = j - 2
    /\ pc' = "outer"
    /\ UNCHANGED <<vecVars, i, cam, px, file, cerr>>

\* lines 109, 116, 106: the column loop ends, --j
RowEnd ==
    /\ pc = "inner"
    /\ i >= image_width
    /\ j' = j - 1
    /\ pc' = "outer"
    /\ UNCHANGED <<vecVars, i, cam, px, file, cerr>>

\* lines 106, 118-119: the row loop ends, "Done.", file.close()
MainDone ==
    /\ pc = "outer"
    /\ j < 0
    /\ cerr' = [cerr EXCEPT !.done = TRUE]
    /\ file' = [file EXCEPT !.open = FALSE]
    /\ pc' = "done"
    /\ UNCHANGED <<vecVars, i, j, cam, px>>

NextMain ==
    \/ MainSetup
    \/ MainOpen
    \/ RowStart
    \/ Pixel
    \/ RowEnd
    \/ MainDone

SpecMain == InitMain /\ [][NextMain]_vars

\* main runs on one thread and waits for nothing: a step that can be taken is taken
FairMain == SpecMain /\ WF_vars(NextMain)

(***************************************************************************)
(* Properties of the vector library                                        *)
(***************************************************************************)
\* the componentwise sum of two vectors
TrueSum(u, v) == <<u[1] + v[1], u[2] + v[2], u[3] + v[3]>>

Lit(x, y, z) == <<fl(x), fl(y), fl(z)>>

\* the step is a call (the two printf steps of testVector are not)
IsCall == tpc \notin {"L55", "L56"}

\* the first call of a caller's expression has just returned
FirstCall(op) == tpc = "expr" /\ nops = 1 /\ last.op = op

\* the call wrote val to object o, wrote nothing else, and returned o
Effect(o, val) ==
    /\ mem' = [q \in DOMAIN mem |-> IF q = o THEN val ELSE mem[q]]
    /\ ret' = o

\* C1: a + b returns a new vector whose component k is a[k] + b[k], and
\* leaves a and b as they were.
C1_PlusReturnsSum ==
    FirstCall("plus") =>
        /\ ret = "tmp"
        /\ mem["tmp"] = TrueSum(given[last.lh], given[last.rh])
        /\ \A o \in DOMAIN given : mem[o] = given[o]

\* the storage the function API is given when it is to produce a temporary
WithTmp(m) == IF "tmp" \in DOMAIN m THEN m ELSE NewObj(m, "tmp", <<0, 0, 0>>)

C2_Step ==
    /\ last'.op = "assign" => mem' = vec3copy(mem, last'.lh, last'.rh)
    /\ last'.op = "addassign" => mem' = vec3add(mem, last'.lh, last'.rh)
    /\ last'.op = "plus" => mem' = vec3sum(WithTmp(mem), "tmp", last'.lh, last'.rh)

C2_Documented ==
    /\ tpc = "L48" => mem["a"] = Lit(4, 5, 6)
    /\ tpc = "L49a" => mem["d"] = Lit(5, 7, 9)
    /\ tpc = "L50a" => mem["d"] = Lit(2, 4, 6)
    /\ tpc = "L53" => mem["d"] = Lit(9, 12, 15)
    /\ tpc = "L53" => /\ mem["a"] = mem["av"]
                      /\ mem["b"] = mem["bv"]
                      /\ mem["c"] = mem["cv"]
                      /\ mem["d"] = mem["dv"]

\* C2: the value API does what the function API does: operator= as vec3copy,
\* operator+= as vec3add, operator+ as vec3sum, from the same storage; and
\* testVector's value-API statements leave a = (4,5,6), then d = (5,7,9),
\* (2,4,6), (9,12,15), the vectors the function API left in av and dv.
C2_ApiEquivalent == [][IsCall => C2_Step /\ C2_Documented']_vars

\* C3: a + b equals b + a in every component.
C3_PlusCommutes ==
    FirstCall("plus") => mem["tmp"] = opPlus[given[last.rh], given[last.lh]]

C5_Step ==
    /\ last'.op = "vec3default" => Effect(last'.out, <<0, 0, 0>>)
    /\ last'.op = "vec3init" => Effect(last'.out, last'.args)
    /\ last'.op = "vec3copy" => Effect(last'.out, mem[last'.rh])
    /\ last'.op = "vec3add" =>
           /\ last'.out = last'.lh
           /\ Effect(last'.lh, TrueSum(mem[last'.lh], mem[last'.rh]))
    /\ last'.op = "vec3sum" =>
           Effect(last'.out, TrueSum(mem[last'.lh], mem[last'.rh]))

C5_Documented ==
    /\ tpc = "L37" => mem["av"] = Lit(0, 0, 0)
    /\ tpc = "L38a" => mem["bv"] = Lit(1, 2, 3)
    /\ tpc = "L38b" => mem["cv"] = Lit(4, 5, 6) /\ ret = "cv"
    /\ tpc = "L39" => mem["dv"] = Lit(4, 5, 6)
    /\ tpc = "L40" => mem["av"] = Lit(4, 5, 6)
    /\ tpc = "L41" => mem["dv"] = Lit(5, 7, 9)
    /\ tpc = "L42a" => mem["dv"] = Lit(2, 4, 6)
    /\ tpc = "L42b" => ret = "dv"
    /\ tpc = "L46a" => /\ mem["dv"] = Lit(9, 12, 15)
                       /\ mem["bv"] = Lit(1, 2, 3)
                       /\ mem["cv"] = Lit(4, 5, 6)

\* C5: vec3default sets its buffer to (0,0,0), vec3init to (x,y,z), vec3copy
\* to the other buffer, vec3add to lh + rh, vec3sum to lh + rh; each writes
\* no other buffer and returns its output buffer; and testVector's calls
\* leave d = (4,5,6), a = (4,5,6), d = (5,7,9), d = (2,4,6), d = (9,12,15)
\* with b and c unchanged.
C5_FunctionApi == [][IsCall => C5_Step /\ C5_Documented']_vars

\* testVector's last function-API call, chained on vec3sum's result, has returned
C5_Witness ==
    /\ tpc = "L46a"
    /\ last.op = "vec3add"
    /\ nops = 2
    /\ mem["dv"] = Lit(9, 12, 15)

\* the first call was a += b on two distinct vectors and the next is chained on it
C6_Chained ==
    /\ FirstCall("addassign")
    /\ last.lh # last.rh
    /\ last'.op = "addassign"

\* C6: a += b replaces each a[k] by a[k] + b[k], writes no other vector and
\* returns a itself; after (a += b) += c the vector a holds a + b + c and
\* b and c are as they were.
C6_AddAssign ==
    [][/\ (IsCall /\ last'.op = "addassign") =>
              Effect(last'.lh, TrueSum(mem[last'.lh], mem[last'.rh]))
       /\ C6_Chained =>
              /\ last'.lh = last.lh
              /\ mem'[last.lh] =
                     TrueSum(TrueSum(given[last.lh], given[last.rh]), given["c"])
              /\ mem'[last.rh] = given[last.rh]
              /\ mem'["c"] = given["c"]]_vars

\* (a += b) += c has been evaluated, with b not the zero vector
C6_Witness ==
    /\ tpc = "expr"
    /\ nops = 2
    /\ last.op = "addassign"
    /\ ret = "a"
    /\ given["a"] # <<0, 0, 0>>
    /\ given["b"] # <<0, 0, 0>>
    /\ mem["b"] = given["b"]
    /\ mem["a"] = TrueSum(TrueSum(given["a"], given["b"]), given["c"])

\* C7: cross(u, v) = (u.y*v.z - u.z*v.y, u.z*v.x - u.x*v.z, u.x*v.y - u.y*v.x)
\* and cross(u, v) is the negation of cross(v, u).
C7_CrossAntiCommutes ==
    FirstCall("cross") =>
        LET u == given[last.lh]
            v == given[last.rh]
        IN  /\ mem["tmp"] = <<(u[2] * v[3] - u[3] * v[2]) \div FP,
                              (u[3] * v[1] - u[1] * v[3]) \div FP,
                              (u[1] * v[2] - u[2] * v[1]) \div FP>>
            /\ mem["tmp"] = opNeg(cross(v, u))

\* cross(a, b) has returned a vector with a negative component
C7_Witness ==
    /\ FirstCall("cross")
    /\ last.lh = "a"
    /\ last.rh = "b"
    /\ \E k \in 1..3 : mem["tmp"][k] < 0

(***************************************************************************)
(* Properties of main                                                      *)
(***************************************************************************)
\* the number of pixels the loops have processed
Processed == (image_height - 1 - j) * image_width + (IF pc = "inner" THEN i ELSE 0)

\* the loop body has just run for pixel (i - 1, j)
AfterPixel == pc = "inner" /\ i > 0

\* the line write_color writes for a colour
ColorLine(c) == write_color([pixels |-> <<>>], c).pixels[1]

\* C4: image.ppm holds the header P3 / 400 225 / 255 and then one R G B line
\* for each pixel the loop has visited, in the order visited: 400 * 225 lines
\* when main is done.
C4_FileHoldsEveryPixel ==
    /\ pc \in {"outer", "inner", "done"} =>
           file.header = [magic |-> "P3", width |-> 400, height |-> 225, maxval |-> 255]
    /\ pc \in {"outer", "inner", "done"} => Len(file.pixels) = Processed
    /\ AfterPixel => file.pixels[Len(file.pixels)] = ColorLine(px.pixel_color)
    /\ pc = "done" => Len(file.pixels) = 400 * 225

\* C8: the ray of pixel (i, j) starts at the camera origin and points along
\* lower_left_corner + u*horizontal + v*vertical - origin, with
\* u = i / (image_width - 1) and v = j / (image_height - 1).
C8_RayDirection ==
    AfterPixel =>
        LET u == fdiv[fl(i - 1), fl(image_width - 1)]
            v == fdiv[fl(j), fl(image_height - 1)]
        IN  /\ px.u = u
            /\ px.v = v
            /\ px.r.orig = cam.origin
            /\ px.r.dir =
                   [k \in 1..3 |->
                       cam.lower_left_corner[k] + fmul[u, cam.horizontal[k]]
                           + fmul[v, cam.vertical[k]] - cam.origin[k]]

\* C9: for t = 0.5 * (unit_direction.y + 1) in [0, 1] the colour is
\* (1 - t) * (1, 1, 1) + t * (0.5, 0.7, 1.0): every component lies in [0, 1]
\* and write_color's integers in 0 .. 255.
C9_ColorIsBlend ==
    AfterPixel =>
        LET t == fmul[FP \div 2, unit_vector[px.r.dir][2] + fl(1)]
            c == px.pixel_color
        IN  (0 <= t /\ t <= fl(1)) =>
                /\ c = <<fmul[fl(1) - t, fl(1)] + fmul[t, FP \div 2],
                         fmul[fl(1) - t, fl(1)] + fmul[t, (7 * FP) \div 10],
                         fmul[fl(1) - t, fl(1)] + fmul[t, fl(1)]>>
                /\ \A k \in 1..3 : 0 <= c[k] /\ c[k] <= fl(1)
                /\ \A k \in 1..3 : ColorLine(c)[k] \in 0..255

C10_Step ==
    /\ pc \in {"outer", "inner"} => cam' = cam
    /\ (pc = "open" /\ pc' = "outer") => Processed' = 0
    /\ (pc = "inner" /\ pc' = "inner") =>
           /\ 0 <= i /\ i < image_width
           /\ 0 <= j /\ j < image_height
           /\ px'.u = fdiv[fl(i), fl(image_width - 1)]
           /\ px'.v = fdiv[fl(j), fl(image_height - 1)]
           /\ Processed' = Processed + 1
    /\ (pc \in {"outer", "inner"} /\ ~(pc = "inner" /\ pc' = "inner")) =>
           Processed' = Processed

C10_Done ==
    pc = "done" =>
        /\ Processed = image_width * image_height
        /\ cerr.scan = [k \in 1..image_height |-> image_height - k]
        /\ cerr.done
        /\ ~file.open

\* C10: the scan processes pixel after pixel, rows from image_height - 1 down
\* to 0 and columns from 0 up to image_width - 1, each pixel once (the count
\* of processed pixels is the pixel's place in that order); the camera is not
\* written; and main eventually reaches "Done." with every pixel processed
\* and then closes the file.
C10_RasterScan == [][C10_Step]_vars /\ []C10_Done /\ <>(pc = "done")

\* main is done: every row was announced and the file is closed
C10_Witness ==
    /\ pc = "done"
    /\ Len(cerr.scan) = image_height
    /\ i = image_width
    /\ j = -1
    /\ ~file.open

====
